---- MODULE Spec2Model ----
(***************************************************************************)
(* Model of the Ecommerce API of src/main.py: the request handlers for     *)
(* categories and products, the diagnostics handler, and the document      *)
(* store they talk to.  Every storage call of a handler is one step, so    *)
(* that concurrent requests interleave exactly at the storage calls.       *)
(*                                                                         *)
(* Encoding of Python values:                                              *)
(*   Optional[T]   a sequence of length <= 1: <<>> is None, <<v>> is v     *)
(*   str (slug)    a TLA+ string; "" is the empty string                   *)
(*   str (title,q) a sequence of one-character strings                     *)
(*   ObjectId      a natural number; its str() form is its hex digits      *)
(***************************************************************************)
EXTENDS Integers, Sequences, FiniteSets, TLC

\* Bound of the model: the number of documents the store may hold.
MaxDocs == 3

\* Query(50, ge=1, le=200)
MinLimit == 1
MaxLimit == 200
\* collections[:10]
MaxCollectionsShown == 10
\* status codes of the handlers
StatusCreated == 201
StatusBadRequest == 400
StatusServerError == 500

\* Concurrent request slots.
Reqs == {"r1", "r2"}

None == <<>>
Some(v) == <<v>>

\* ---------------------------------------------------------------- inputs
Slugs == {"shoes", "hats"}
Names == {"Shoes"}
Titles == {<<"a", "b">>, <<"A", "c">>, <<"b">>}
Patterns == {<<>>, <<"a">>, <<"B">>, <<"a", ".">>, <<".", "c">>}
Limits == {0, 1, 2, 200, 201}

\* CreateCategory(BaseModel).model_dump()
CategoryPayloads ==
    [kind : {"category"}, name : Names, slug : Slugs, image : {None}]

\* CreateProduct(BaseModel).model_dump(); in_stock defaults to True
ProductPayloads ==
    [kind : {"product"}, title : Titles, description : {None}, price : {50},
     category : Slugs, image : {None}, in_stock : {TRUE}]

ListCategoryQueries == [kind : {"list_categories"}, limit : Limits]

ListProductQueries ==
    [kind : {"list_products"},
     category : {None, Some(""), Some("shoes"), Some("hats")},
     q : {None} \cup {Some(p) : p \in Patterns},
     limit : Limits]

NoPayload == [kind |-> "none"]
NoResp == [status |-> 0]
NoSnap == [category |-> <<>>, product |-> <<>>]

VARIABLES
    db,        \* the storage handle of database.py: Some("conn") or None
    category,  \* the "category" collection, in insertion order
    product,   \* the "product" collection, in insertion order
    nextId,    \* the next identifier the store assigns
    pc,        \* per request: the storage call it is about to issue
    payload,   \* per request: its validated input
    new_id,    \* per request: the local new_id
    resp,      \* per request: the response (NoResp while in flight)
    snap,      \* per request: the store as its first storage call saw it
    raised,    \* per request: a storage call of it raised
    calls,     \* per request: storage calls issued
    writes     \* per request: inserts performed

vars == <<db, category, product, nextId, pc, payload, new_id, resp,
          snap, raised, calls, writes>>

\* ------------------------------------------------------- pure functions
HexDigits == <<"0", "1", "2", "3", "4", "5", "6", "7",
               "8", "9", "a", "b", "c", "d", "e", "f">>

\* str(ObjectId): the hexadecimal rendering of the identifier
RECURSIVE ToHex(_)
ToHex(n) ==
    IF n < 16 THEN <<HexDigits[n + 1]>>
    ELSE ToHex(n \div 16) \o <<HexDigits[(n % 16) + 1]>>

HexValue(c) == CHOOSE i \in 0..15 : HexDigits[i + 1] = c

\* ObjectId(new_id): parse the hexadecimal string back
RECURSIVE FromHex(_)
FromHex(s) ==
    IF Len(s) = 0 THEN 0
    ELSE 16 * FromHex(SubSeq(s, 1, Len(s) - 1)) + HexValue(s[Len(s)])

\* Python truthiness of an Optional[str] query parameter
TruthyStr(o) == o # None /\ o[1] # ""
TruthySeq(o) == o # None /\ o[1] # <<>>

Lower(c) == CASE c = "A" -> "a" [] c = "B" -> "b" [] c = "C" -> "c" [] OTHER -> c

\* {"$regex": q, "$options": "i"}: an unanchored, case-insensitive search
\* of the pattern; "." matches any character
RegexMatchAt(pat, s, i) ==
    /\ i + Len(pat) - 1 <= Len(s)
    /\ \A k \in 1..Len(pat) :
          pat[k] = "." \/ Lower(pat[k]) = Lower(s[i + k - 1])

RegexSearch(pat, s) == \E i \in 1..(Len(s) + 1) : RegexMatchAt(pat, s, i)

SlugsOf(coll) == {coll[i].slug : i \in 1..Len(coll)}
IdsOf(coll) == {coll[i]._id : i \in 1..Len(coll)}

\* it["_id"] = str(it["_id"])
Stringify(doc) == [doc EXCEPT !._id = ToHex(@)]

RECURSIVE PickInOrder(_, _, _)
PickInOrder(coll, S, i) ==
    IF i > Len(coll) THEN <<>>
    ELSE (IF i \in S THEN <<coll[i]>> ELSE <<>>) \o PickInOrder(coll, S, i + 1)

Min(a, b) == IF a < b THEN a ELSE b


\* ------------------------------------------------------ storage gateway
\* find_one(filter): the first matching document, or None
\* (m: the positions in coll of the documents the filter matches)
FindOne(coll, m) ==
    IF m = {} THEN None
    ELSE Some(coll[CHOOSE i \in m : \A j \in m : i <= j])

FindOneBySlug(coll, slug) ==
    FindOne(coll, {i \in 1..Len(coll) : coll[i].slug = slug})

FindOneById(coll, id) ==
    FindOne(coll, {i \in 1..Len(coll) : coll[i]._id = id})

\* get_documents(collection, filter, limit): at most `limit` of the matching
\* documents; which of them the store hands out first is not specified
\* (m: the positions in coll of the documents the filter matches)
GetDocuments(coll, m, limit) ==
    {PickInOrder(coll, S, 1) :
        S \in {T \in SUBSET m : Cardinality(T) = Min(limit, Cardinality(m))}}

\* list_collection_names(): the collections that hold documents
CollectionNames ==
    (IF Len(category) > 0 THEN <<"category">> ELSE <<>>)
        \o (IF Len(product) > 0 THEN <<"product">> ELSE <<>>)

\* create_document(collection, data) fails when no connection was established
\* at startup, or when the store cannot be reached
CreateDocumentRaises(fail) == db = None \/ fail

\* the document create_document stores for a payload
CategoryDoc(p, id) ==
    [_id |-> id, name |-> p.name, slug |-> p.slug, image |-> p.image]

ProductDoc(p, id) ==
    [_id |-> id, title |-> p.title, description |-> p.description,
     price |-> p.price, category |-> p.category, image |-> p.image,
     in_stock |-> p.in_stock]

\* ----------------------------------------------------------- exceptions
HTTPException(status, detail) ==
    [type |-> "HTTPException", status |-> status, detail |-> detail]

StorageError == [type |-> "Exception", msg |-> "storage error"]

\* Mutant: the handler without its "except HTTPException: raise" clause.
CreateExceptAll500(exc) ==
    HTTPException(StatusServerError,
                  IF exc.type = "HTTPException" THEN exc.detail ELSE exc.msg)

\* except HTTPException: raise / except Exception as e: raise HTTPException(500)
CreateExcept(exc) ==
    IF exc.type = "HTTPException" THEN exc
    ELSE HTTPException(StatusServerError, exc.msg)

\* except Exception as e: raise HTTPException(status_code=500, detail=str(e))
ListExcept(exc) == HTTPException(StatusServerError, exc.msg)

\* the response the framework renders for a raised HTTPException
ErrorResponse(exc) == [status |-> exc.status, detail |-> exc.detail]

\* --------------------------------------------------------- handler parts
\* Mutant: the query parameter without its upper bound (le=200 dropped).
ValidLimitNoUpper(limit) == limit >= MinLimit

\* limit: int = Query(50, ge=1, le=200)
ValidLimit(limit) == limit >= MinLimit /\ limit <= MaxLimit

ValidationErrorResponse == [status |-> 422, detail |-> "validation error"]

\* Mutant: create_category without the slug lookup.
CategoryExistsNever(slug) == None

\* exists = db["category"].find_one({"slug": payload.slug})
CategoryExists(slug) == FindOneBySlug(category, slug)

\* Mutant: the category lookup with an empty filter, find_one({}).
ProductCategoryLookupAny(slug) == FindOne(category, 1..Len(category))

\* cat = db["category"].find_one({"slug": payload.category})
ProductCategoryLookup(slug) == FindOneBySlug(category, slug)

\* Mutant: the missing-category branch never taken.
CategoryMissingNever(cat) == FALSE

\* if not cat:
CategoryMissing(cat) == cat = None

\* doc = db["category"].find_one({"_id": ObjectId(new_id)})
CategoryReread(id) == FindOneById(category, FromHex(id))

\* Mutant: the product re-read issued against the category collection.
ProductRereadWrongCollection(id) == FindOneById(category, FromHex(id))

\* doc = db["product"].find_one({"_id": ObjectId(new_id)})
ProductReread(id) == FindOneById(product, FromHex(id))

\* if doc: doc["_id"] = str(doc["_id"]); return {"item": doc}
ItemResponse(doc) ==
    [status |-> StatusCreated,
     item |-> IF doc # None THEN Some(Stringify(doc[1])) ELSE None]

\* filt of list_products
ProductFilter(qry, doc) ==
    /\ TruthyStr(qry.category) => doc.category = qry.category[1]
    /\ TruthySeq(qry.q) => RegexSearch(qry.q[1], doc.title)

Take(s, n) == SubSeq(s, 1, Min(n, Len(s)))

Flag(isSet) == IF isSet THEN "Set" ELSE "Not Set"

\* Mutant: connection_status set before the handle is tested against None.
DiagnosticsBodyAlwaysConnected(dbv, envv, listFails, names) ==
    [backend |-> "Running",
     database |-> IF dbv = None THEN "Available but not initialized"
                  ELSE IF listFails THEN "Connected but Error"
                  ELSE "Connected & Working",
     database_url |-> Some(Flag(envv.url)),
     database_name |-> Some(Flag(envv.name)),
     connection_status |-> "Connected",
     collections |-> IF dbv # None /\ ~listFails
                     THEN Take(names, MaxCollectionsShown) ELSE <<>>]

\* the body test_database builds
DiagnosticsBody(dbv, envv, listFails, names) ==
    LET base == [backend |-> "Running", database |-> "Not Available",
                 database_url |-> None, database_name |-> None,
                 connection_status |-> "Not Connected", collections |-> <<>>]
        tried ==
            IF dbv # None
            THEN IF listFails
                 THEN [base EXCEPT !.database = "Connected but Error",
                                   !.connection_status = "Connected"]
                 ELSE [base EXCEPT !.database = "Connected & Working",
                                   !.connection_status = "Connected",
                                   !.collections = Take(names, MaxCollectionsShown)]
            ELSE [base EXCEPT !.database = "Available but not initialized"]
    IN  [tried EXCEPT !.database_url = Some(Flag(envv.url)),
                      !.database_name = Some(Flag(envv.name))]


\* -------------------------------------------------------------- actions
Init ==
    /\ db \in {None, Some("conn")}
    /\ category = <<>>
    /\ product = <<>>
    /\ nextId = 1
    /\ pc = [r \in Reqs |-> "idle"]
    /\ payload = [r \in Reqs |-> NoPayload]
    /\ new_id = [r \in Reqs |-> None]
    /\ resp = [r \in Reqs |-> NoResp]
    /\ snap = [r \in Reqs |-> NoSnap]
    /\ raised = [r \in Reqs |-> FALSE]
    /\ calls = [r \in Reqs |-> 0]
    /\ writes = [r \in Reqs |-> 0]

\* Room in the bounded store for one more create request.
MayCreate ==
    Len(category) + Len(product)
        + Cardinality({o \in Reqs : pc[o] \in {"cc_insert", "cp_insert"}}) < MaxDocs

Respond(r, response) ==
    /\ pc' = [pc EXCEPT ![r] = "done"]
    /\ resp' = [resp EXCEPT ![r] = response]

Goto(r, label) ==
    /\ pc' = [pc EXCEPT ![r] = label]
    /\ resp' = resp

\* create_category up to and including the slug lookup
CreateCategoryLookup(r) ==
    \E p \in CategoryPayloads, fail \in BOOLEAN :
        /\ pc[r] = "idle"
        /\ MayCreate
        /\ LET issued == db # None
               boom == issued /\ fail
               exists == IF issued THEN CategoryExists(p.slug) ELSE None
           IN  /\ payload' = [payload EXCEPT ![r] = p]
               /\ snap' = [snap EXCEPT ![r] = [category |-> category, product |-> product]]
               /\ calls' = [calls EXCEPT ![r] = IF issued THEN 1 ELSE 0]
               /\ raised' = [raised EXCEPT ![r] = boom]
               /\ IF boom
                  THEN Respond(r, ErrorResponse(CreateExcept(StorageError)))
                  ELSE IF exists # None
                  THEN Respond(r, ErrorResponse(CreateExcept(
                           HTTPException(StatusBadRequest, "Slug already exists"))))
                  ELSE Goto(r, "cc_insert")
        /\ UNCHANGED <<db, category, product, nextId, new_id, writes>>

\* Mutant: the insert replaced by an upsert keyed on the slug, which writes
\* no second document when the slug is already stored.
CreateCategoryUpsert(r) ==
    \E fail \in BOOLEAN :
        /\ pc[r] = "cc_insert"
        /\ calls' = [calls EXCEPT ![r] = @ + 1]
        /\ IF CreateDocumentRaises(fail)
           THEN /\ Respond(r, ErrorResponse(CreateExcept(StorageError)))
                /\ raised' = [raised EXCEPT ![r] = TRUE]
                /\ UNCHANGED <<category, nextId, new_id, writes>>
           ELSE LET old == FindOneBySlug(category, payload[r].slug)
                IN  /\ IF old = None
                       THEN /\ category' = Append(category, CategoryDoc(payload[r], nextId))
                            /\ nextId' = nextId + 1
                            /\ new_id' = [new_id EXCEPT ![r] = Some(ToHex(nextId))]
                       ELSE /\ new_id' = [new_id EXCEPT ![r] = Some(ToHex(old[1]._id))]
                            /\ UNCHANGED <<category, nextId>>
                    /\ writes' = [writes EXCEPT ![r] = @ + 1]
                    /\ Goto(r, "cc_reread")
                    /\ UNCHANGED raised
        /\ UNCHANGED <<db, product, payload, snap>>

\* new_id = create_document("category", payload.model_dump())
CreateCategoryInsert(r) ==
    \E fail \in BOOLEAN :
        /\ pc[r] = "cc_insert"
        /\ calls' = [calls EXCEPT ![r] = @ + 1]
        /\ IF CreateDocumentRaises(fail)
           THEN /\ Respond(r, ErrorResponse(CreateExcept(StorageError)))
                /\ raised' = [raised EXCEPT ![r] = TRUE]
                /\ UNCHANGED <<category, nextId, new_id, writes>>
           ELSE /\ category' = Append(category, CategoryDoc(payload[r], nextId))
                /\ nextId' = nextId + 1
                /\ new_id' = [new_id EXCEPT ![r] = Some(ToHex(nextId))]
                /\ writes' = [writes EXCEPT ![r] = @ + 1]
                /\ Goto(r, "cc_reread")
                /\ UNCHANGED raised
        /\ UNCHANGED <<db, product, payload, snap>>

\* create_category from the re-read to the response
CreateCategoryReread(r) ==
    \E fail \in BOOLEAN :
        /\ pc[r] = "cc_reread"
        /\ LET issued == db # None
               boom == issued /\ fail
               doc == IF issued THEN CategoryReread(new_id[r][1]) ELSE None
           IN  /\ calls' = [calls EXCEPT ![r] = IF issued THEN @ + 1 ELSE @]
               /\ raised' = [raised EXCEPT ![r] = boom]
               /\ IF boom
                  THEN Respond(r, ErrorResponse(CreateExcept(StorageError)))
                  ELSE Respond(r, ItemResponse(doc))
        /\ UNCHANGED <<db, category, product, nextId, payload, new_id, snap, writes>>

\* create_product up to and including the category lookup
CreateProductLookup(r) ==
    \E p \in ProductPayloads, fail \in BOOLEAN :
        /\ pc[r] = "idle"
        /\ MayCreate
        /\ LET issued == db # None
               boom == issued /\ fail
               cat == IF issued THEN ProductCategoryLookup(p.category) ELSE None
           IN  /\ payload' = [payload EXCEPT ![r] = p]
               /\ snap' = [snap EXCEPT ![r] = [category |-> category, product |-> product]]
               /\ calls' = [calls EXCEPT ![r] = IF issued THEN 1 ELSE 0]
               /\ raised' = [raised EXCEPT ![r] = boom]
               /\ IF boom
                  THEN Respond(r, ErrorResponse(CreateExcept(StorageError)))
                  ELSE IF CategoryMissing(cat)
                  THEN Respond(r, ErrorResponse(CreateExcept(
                           HTTPException(StatusBadRequest, "Category does not exist"))))
                  ELSE Goto(r, "cp_insert")
        /\ UNCHANGED <<db, category, product, nextId, new_id, writes>>

\* Mutant: the insert issued a second time (a blind retry).
CreateProductInsertTwice(r) ==
    \E fail \in BOOLEAN :
        /\ pc[r] = "cp_insert"
        /\ calls' = [calls EXCEPT ![r] = @ + 2]
        /\ IF CreateDocumentRaises(fail)
           THEN /\ Respond(r, ErrorResponse(CreateExcept(StorageError)))
                /\ raised' = [raised EXCEPT ![r] = TRUE]
                /\ UNCHANGED <<product, nextId, new_id, writes>>
           ELSE /\ product' = Append(Append(product, ProductDoc(payload[r], nextId)),
                                     ProductDoc(payload[r], nextId + 1))
                /\ nextId' = nextId + 2
                /\ new_id' = [new_id EXCEPT ![r] = Some(ToHex(nextId + 1))]
                /\ writes' = [writes EXCEPT ![r] = @ + 2]
                /\ Goto(r, "cp_reread")
                /\ UNCHANGED raised
        /\ UNCHANGED <<db, category, payload, snap>>

\* new_id = create_document("product", payload.model_dump())
CreateProductInsert(r) ==
    \E fail \in BOOLEAN :
        /\ pc[r] = "cp_insert"
        /\ calls' = [calls EXCEPT ![r] = @ + 1]
        /\ IF CreateDocumentRaises(fail)
           THEN /\ Respond(r, ErrorResponse(CreateExcept(StorageError)))
                /\ raised' = [raised EXCEPT ![r] = TRUE]
                /\ UNCHANGED <<product, nextId, new_id, writes>>
           ELSE /\ product' = Append(product, ProductDoc(payload[r], nextId))
                /\ nextId' = nextId + 1
                /\ new_id' = [new_id EXCEPT ![r] = Some(ToHex(nextId))]
                /\ writes' = [writes EXCEPT ![r] = @ + 1]
                /\ Goto(r, "cp_reread")
                /\ UNCHANGED raised
        /\ UNCHANGED <<db, category, payload, snap>>

\* create_product from the re-read to the response
CreateProductReread(r) ==
    \E fail \in BOOLEAN :
        /\ pc[r] = "cp_reread"
        /\ LET issued == db # None
               boom == issued /\ fail
               doc == IF issued THEN ProductReread(new_id[r][1]) ELSE None
           IN  /\ calls' = [calls EXCEPT ![r] = IF issued THEN @ + 1 ELSE @]
               /\ raised' = [raised EXCEPT ![r] = boom]
               /\ IF boom
                  THEN Respond(r, ErrorResponse(CreateExcept(StorageError)))
                  ELSE Respond(r, ItemResponse(doc))
        /\ UNCHANGED <<db, category, product, nextId, payload, new_id, snap, writes>>

\* the whole of a list handler: validation, get_documents, stringified ids
ListWith(r, qry, coll, m, fail) ==
    /\ pc[r] = "idle"
    /\ payload' = [payload EXCEPT ![r] = qry]
    /\ IF ~ValidLimit(qry.limit)
       THEN /\ Respond(r, ValidationErrorResponse)
            /\ UNCHANGED <<calls, raised>>
       ELSE /\ calls' = [calls EXCEPT ![r] = 1]
            /\ raised' = [raised EXCEPT ![r] = fail]
            /\ IF fail
               THEN Respond(r, ErrorResponse(ListExcept(StorageError)))
               ELSE \E items \in GetDocuments(coll, m, qry.limit) :
                       Respond(r, [status |-> 200,
                                   items |-> [i \in 1..Len(items) |-> Stringify(items[i])]])
    /\ UNCHANGED <<db, category, product, nextId, new_id, snap, writes>>

ListCategories(r) ==
    \E qry \in ListCategoryQueries, fail \in BOOLEAN :
        ListWith(r, qry, category, 1..Len(category), fail)

ListProducts(r) ==
    \E qry \in ListProductQueries, fail \in BOOLEAN :
        ListWith(r, qry, product,
                 {i \in 1..Len(product) : ProductFilter(qry, product[i])}, fail)

\* GET /test; env is what os.getenv finds for DATABASE_URL and DATABASE_NAME
TestDatabase(r) ==
    \E listFails \in BOOLEAN, env \in [url : BOOLEAN, name : BOOLEAN] :
        /\ pc[r] = "idle"
        /\ payload' = [payload EXCEPT ![r] = [kind |-> "test"]]
        /\ calls' = [calls EXCEPT ![r] = IF db # None THEN 1 ELSE 0]
        /\ raised' = [raised EXCEPT ![r] = db # None /\ listFails]
        /\ Respond(r, [status |-> 200,
                       body |-> DiagnosticsBody(db, env, listFails, CollectionNames)])
        /\ UNCHANGED <<db, category, product, nextId, new_id, snap, writes>>

\* the response is sent; nothing of the request is kept
Finish(r) ==
    /\ pc[r] = "done"
    /\ pc' = [pc EXCEPT ![r] = "idle"]
    /\ payload' = [payload EXCEPT ![r] = NoPayload]
    /\ new_id' = [new_id EXCEPT ![r] = None]
    /\ resp' = [resp EXCEPT ![r] = NoResp]
    /\ snap' = [snap EXCEPT ![r] = NoSnap]
    /\ raised' = [raised EXCEPT ![r] = FALSE]
    /\ calls' = [calls EXCEPT ![r] = 0]
    /\ writes' = [writes EXCEPT ![r] = 0]
    /\ UNCHANGED <<db, category, product, nextId>>

CreateHandler(r) ==
    \/ CreateCategoryLookup(r)
    \/ CreateCategoryInsert(r)
    \/ CreateCategoryReread(r)
    \/ CreateProductLookup(r)
    \/ CreateProductInsert(r)
    \/ CreateProductReread(r)
    \/ Finish(r)

ReadHandler(r) ==
    \/ ListCategories(r)
    \/ ListProducts(r)
    \/ TestDatabase(r)

Handler(r) == CreateHandler(r) \/ ReadHandler(r)

\* no other request is in flight
Quiet(r) == \A o \in Reqs \ {r} : pc[o] = "idle"

\* Requests are handled concurrently and interleave at their storage calls.
\* A list or diagnostics request is a single storage call that writes
\* nothing: what it returns depends on the store alone, and every content of
\* the store is also reached with no request in flight (a request in flight
\* has either inserted already or may still fail). Such a request is
\* therefore taken when no other request is in flight.
Next == \E r \in Reqs : CreateHandler(r) \/ (Quiet(r) /\ ReadHandler(r))

Spec == Init /\ [][Next]_vars

\* requests are handled one at a time
NextSerial == \E r \in Reqs : Quiet(r) /\ Handler(r)

SpecSerial == Init /\ [][NextSerial]_vars

\* ------------------------------------------------------------- claims
Done(r, kind) == pc[r] = "done" /\ payload[r].kind = kind

CountSlug(coll, s) == Cardinality({i \in 1..Len(coll) : coll[i].slug = s})

AllIdsOf(sn) == IdsOf(sn.category) \cup IdsOf(sn.product)

DuplicateResponse == [status |-> 400, detail |-> "Slug already exists"]
MissingResponse == [status |-> 400, detail |-> "Category does not exist"]
ServerErrorResponse == [status |-> 500, detail |-> "storage error"]

\* C1: with create_category requests handled one at a time, no slug is ever
\* stored twice; a request for a slug that is already stored inserts nothing
\* and is answered 400 'Slug already exists'; a request for a slug not yet
\* stored is answered 201 with the stored document under an identifier the
\* store did not hold before. (A storage call that raises is answered 500,
\* which is C9's subject; it inserts no duplicate either.)
C1_SerialDuplicateRejected ==
    /\ \A s \in Slugs : CountSlug(category, s) <= 1
    /\ \A r \in Reqs : Done(r, "category") =>
          LET s == payload[r].slug
              known == s \in SlugsOf(snap[r].category)
          IN  /\ known => /\ category = snap[r].category
                          /\ writes[r] = 0
                          /\ resp[r].status # 201
                          /\ ~raised[r] => resp[r] = DuplicateResponse
              /\ (~known /\ ~raised[r]) =>
                    /\ resp[r].status = 201
                    /\ resp[r].item # None
                    /\ Len(resp[r].item[1]._id) > 0
                    /\ FromHex(resp[r].item[1]._id) \notin AllIdsOf(snap[r])
                    /\ \E i \in 1..Len(category) :
                          /\ category[i].slug = s
                          /\ Stringify(category[i]) = resp[r].item[1]

\* C1 witness: a second request for a stored slug has been answered 400 and
\* the slug is stored once.
C1_Witness ==
    \E r \in Reqs :
        /\ Done(r, "category")
        /\ resp[r] = DuplicateResponse
        /\ CountSlug(category, payload[r].slug) = 1

\* C2: a create_product request whose category was the slug of no stored
\* category when its pre-check ran never reaches the insert: it writes
\* nothing and is answered 400 'Category does not exist' (500 if the
\* pre-check call itself raised).
C2_MissingCategoryRejected ==
    \A r \in Reqs :
        (payload[r].kind = "product"
            /\ payload[r].category \notin SlugsOf(snap[r].category)) =>
            /\ pc[r] = "done"
            /\ writes[r] = 0
            /\ new_id[r] = None
            /\ IF raised[r] THEN resp[r] = ServerErrorResponse
               ELSE resp[r] = MissingResponse


\* C2 witness: a product request for a category that is not stored has been
\* answered 400 by a connected store.
C2_Witness ==
    \E r \in Reqs :
        /\ Done(r, "product")
        /\ db # None
        /\ payload[r].category \notin SlugsOf(snap[r].category)
        /\ resp[r] = MissingResponse

\* C3: with requests handled one at a time, a create_product whose category
\* is a stored slug s (and whose storage calls do not raise) is answered 201;
\* exactly one product document has been added; the returned item is that
\* stored document with its identifier rendered as a string; its category is
\* s and its identifier is non-empty and differs from every category's.
C3_ProductAfterCategory ==
    \A r \in Reqs :
        (Done(r, "product")
            /\ payload[r].category \in SlugsOf(snap[r].category)
            /\ ~raised[r]) =>
            /\ resp[r].status = 201
            /\ Len(product) = Len(snap[r].product) + 1
            /\ SubSeq(product, 1, Len(product) - 1) = snap[r].product
            /\ resp[r].item = Some(Stringify(product[Len(product)]))
            /\ resp[r].item[1].category = payload[r].category
            /\ resp[r].item[1].title = payload[r].title
            /\ Len(resp[r].item[1]._id) > 0
            /\ \A i \in 1..Len(category) :
                  ToHex(category[i]._id) # resp[r].item[1]._id

\* C3 witness: a product has been created in a category created before it.
C3_Witness ==
    \E r \in Reqs :
        /\ Done(r, "product")
        /\ resp[r].status = 201
        /\ payload[r].category \in SlugsOf(category)

\* C4: under every interleaving of concurrent create requests, every stored
\* product's category is the slug of a stored category.
C4_ProductCategoryStored ==
    \A i \in 1..Len(product) : product[i].category \in SlugsOf(category)

\* C4 witness: a product is stored while another create request is between
\* its lookup and its insert.
C4_Witness ==
    /\ Len(product) >= 1
    /\ \E r \in Reqs : pc[r] \in {"cc_insert", "cp_insert"}

\* C5: the slug lookup and the insert of create_category are separate steps
\* and the insert is unconditional: every request that got past its lookup
\* saw no document with its slug, and every request that got past its insert
\* has added a document of its own, whatever was stored in between; a 201
\* response is given exactly by the requests that inserted.
C5_RacingCreatesBothInsert ==
    /\ \A r \in Reqs :
          (payload[r].kind = "category"
              /\ (pc[r] \in {"cc_insert", "cc_reread"} \/ writes[r] > 0)) =>
              payload[r].slug \notin SlugsOf(snap[r].category)
    /\ \A r \in Reqs :
          (Done(r, "category") /\ resp[r].status = 201) => writes[r] = 1
    /\ \A s \in Slugs :
          CountSlug(category, s) >=
              Cardinality({r \in Reqs : /\ payload[r].kind = "category"
                                        /\ payload[r].slug = s
                                        /\ writes[r] > 0})

\* C5 witness: two requests with the same slug have both been answered 201
\* and two stored categories share that slug.
C5_Witness ==
    \E r1, r2 \in Reqs :
        /\ r1 # r2
        /\ Done(r1, "category") /\ Done(r2, "category")
        /\ payload[r1].slug = payload[r2].slug
        /\ resp[r1].status = 201 /\ resp[r2].status = 201
        /\ resp[r1].item[1]._id # resp[r2].item[1]._id
        /\ CountSlug(category, payload[r1].slug) = 2

IsList(r) == pc[r] = "done" /\ payload[r].kind \in {"list_categories", "list_products"}

\* C6: a list request with limit in 1..200 is answered with at most limit
\* items (or 500 when the storage call raised); one with a limit outside
\* 1..200 is answered with a validation error and no storage call.
C6_LimitBounds ==
    \A r \in Reqs : IsList(r) =>
        IF payload[r].limit >= 1 /\ payload[r].limit <= 200
        THEN IF raised[r] THEN resp[r] = ServerErrorResponse
             ELSE resp[r].status = 200 /\ Len(resp[r].items) <= payload[r].limit
        ELSE resp[r].status = 422 /\ calls[r] = 0

\* C6 witness: a list of categories cut to its limit of 1 while more are stored.
C6_Witness ==
    \E r \in Reqs :
        /\ Done(r, "list_categories")
        /\ payload[r].limit = 1
        /\ resp[r].status = 200
        /\ Len(resp[r].items) = 1
        /\ Len(category) >= 2

\* a title contains q, compared character by character without regard to case
ContainsIgnoreCase(s, sub) ==
    \E i \in 1..(Len(s) + 1) :
        /\ i + Len(sub) - 1 <= Len(s)
        /\ \A k \in 1..Len(sub) : Lower(sub[k]) = Lower(s[i + k - 1])

\* C7: every product list_products returns has the given category exactly
\* (when a category is given) and a title that contains q case-insensitively
\* (when q is given).
C7_FiltersAsClaimed ==
    \A r \in Reqs :
        (Done(r, "list_products") /\ resp[r].status = 200) =>
            \A i \in 1..Len(resp[r].items) :
                /\ TruthyStr(payload[r].category) =>
                      resp[r].items[i].category = payload[r].category[1]
                /\ TruthySeq(payload[r].q) =>
                      ContainsIgnoreCase(resp[r].items[i].title, payload[r].q[1])

ErrorDescriptive(text) ==
    text \in {"Connected but Error", "Available but not initialized", "Error"}

\* C8 as stated: the diagnostics handler answers with a status object, and
\* whenever there is no connection object or the collection listing fails the
\* database field is error-descriptive and connection_status is not 'Connected'.
C8_AsClaimed ==
    \A r \in Reqs : Done(r, "test") =>
        /\ resp[r].status = 200
        /\ (db = None \/ raised[r]) =>
              /\ ErrorDescriptive(resp[r].body.database)
              /\ resp[r].body.connection_status # "Connected"

\* C8 amended: the diagnostics handler always answers with a status object;
\* with no connection object the database field is error-descriptive and
\* connection_status is 'Not Connected'; when the collection listing fails the
\* database field is error-descriptive ('Connected but Error') while
\* connection_status stays 'Connected'; connection_status is 'Connected'
\* exactly when a connection object exists.
C8_Diagnostics ==
    \A r \in Reqs : Done(r, "test") =>
        /\ resp[r].status = 200
        /\ resp[r].body.backend = "Running"
        /\ (db = None \/ raised[r]) => ErrorDescriptive(resp[r].body.database)
        /\ db = None => resp[r].body.connection_status = "Not Connected"
        /\ db # None => resp[r].body.connection_status = "Connected"
        /\ (db # None /\ ~raised[r]) => resp[r].body.database = "Connected & Working"

\* C8 witness: the diagnostics handler has answered after its listing call failed.
C8_Witness ==
    \E r \in Reqs : Done(r, "test") /\ raised[r] /\ resp[r].status = 200

IsCreate(r) == pc[r] = "done" /\ payload[r].kind \in {"category", "product"}

\* C9: a create request is answered 500 exactly when one of its storage calls
\* (lookup, insert, re-read) raised; the 400 conditions raised in the same try
\* block reach the client as 400 with their own detail.
C9_ErrorTranslation ==
    \A r \in Reqs : IsCreate(r) =>
        /\ raised[r] => resp[r] = ServerErrorResponse
        /\ ~raised[r] => resp[r].status \in {201, 400}
        /\ (~raised[r] /\ writes[r] = 0) =>
              resp[r] = IF payload[r].kind = "category"
                        THEN DuplicateResponse ELSE MissingResponse
        /\ (~raised[r] /\ writes[r] = 1) => resp[r].status = 201

\* C9 witness: a create request whose insert succeeded and whose re-read
\* raised has been answered 500, and another has been answered 400.
C9_Witness ==
    \E r, o \in Reqs :
        /\ IsCreate(r) /\ raised[r] /\ writes[r] = 1 /\ resp[r].status = 500
        /\ IsCreate(o) /\ resp[o].status = 400

\* C10 as stated: no request issues more than two storage calls or more than
\* one write.
C10_AsClaimed ==
    \A r \in Reqs : calls[r] <= 2 /\ writes[r] <= 1

\* C10 amended: no request issues more than three storage calls (lookup,
\* insert, re-read) or more than one write; the list and diagnostics handlers
\* issue at most one call and no write; an idle slot holds nothing of the
\* request it served.
C10_CallsAndWrites ==
    \A r \in Reqs :
        /\ calls[r] <= 3
        /\ writes[r] <= 1
        /\ payload[r].kind \in {"list_categories", "list_products", "test"} =>
              calls[r] <= 1 /\ writes[r] = 0
        /\ pc[r] = "idle" =>
              /\ payload[r] = NoPayload /\ new_id[r] = None /\ resp[r] = NoResp
              /\ calls[r] = 0 /\ writes[r] = 0

\* C10 witness: a create request has finished after three storage calls, one
\* of them a write.
C10_Witness ==
    \E r \in Reqs : IsCreate(r) /\ calls[r] = 3 /\ writes[r] = 1

====
